---- MODULE Spec2Model ----
(***************************************************************************)
(* Model of internal/dispatcher/worker.go: a pool of Worker goroutines     *)
(* that receive SQS messages from one shared channel and run               *)
(* processMessage on each, throttled by the package-level lastRequestTime  *)
(* guarded by lastRequestTimeMu.                                           *)
(*                                                                         *)
(* Time is a discrete clock `now`.  pc[w] is the position of goroutine w   *)
(* in Worker/processMessage; the label names the statement it executes     *)
(* next.  External calls (S3, Grobid, CrossRef, SQS) return success or an  *)
(* error nondeterministically.                                             *)
(***************************************************************************)
EXTENDS Integers, Sequences, FiniteSets, TLC

\* ---- bounds of the model ----
NumWorkers == 2
MaxMsgs == 2
MaxTime == 1
\* MINIMUM_GAP_BETWEEN_REQUESTS_SECONDS as configured, when it parses.
GapSeconds == 1
\* Horizon and largest gap of the gate evaluations explored by GateSpec.
GateMaxTime == 6
GateMaxGap == 5

Workers == 1..NumWorkers
MsgIds == 1..MaxMsgs

\* ---- time.Time / time.Duration ----
\* time.Duration saturates at maxDuration (about 292 years); scaled down.
MaxDuration == 1000
\* The zero time.Time (January 1, year 1) lies more than maxDuration before
\* any reading of the clock.
ZeroTime == 0 - 2000

Clamp(d) == IF d > MaxDuration THEN MaxDuration
            ELSE IF d < 0 - MaxDuration THEN 0 - MaxDuration ELSE d

\* t.Sub(u): the difference, saturated to the Duration range.
Sub(t, u) == Clamp(t - u)

\* time.Since(t) evaluated at instant n.
Since(n, t) == Sub(n, t)

\* ---- messages ----
\* What json.Unmarshal and the three type assertions make of *message.Body:
\* "badJSON" does not parse; "badField" parses, but one of s3Location,
\* user_id, screen_id is missing or is not a string.
BodyKinds == {"wellFormed", "badJSON", "badField"}

\* An *sqs.Message: its receipt handle and (the kind of) its body.
Messages == [ReceiptHandle : MsgIds, Body : BodyKinds]
NoMessage == [ReceiptHandle |-> 0, Body |-> "none"]

\* worker.go:136: VisibilityTimeout: aws.Int64(30)
VisibilityTimeout == 30

\* The requests the SQS API offers about a received message.
SqsOps == {"ChangeMessageVisibility", "DeleteMessage"}

\* The calls processMessage makes on behalf of a message, in code order.
Stages == {"gate", "fetch", "extract", "tidy", "enrich", "stamp", "extend"}

VARIABLES
  now,              \* the wall clock
  cfgOK,            \* MINIMUM_GAP_BETWEEN_REQUESTS_SECONDS parses as a duration
  minGap,           \* the parsed minimum gap
  lastRequestTime,  \* package variable, worker.go:22
  lastRequestTimeMu,\* package mutex, worker.go:23: 0 = unlocked, else the holder
  messageQueue,     \* the shared inbound channel: messages in order
  delivered,        \* number of messages put on the channel so far
  received,         \* received[h]: times the message with handle h was received
  pc,               \* pc[w]: position of worker w
  message,          \* message[w]: the message worker w holds
  calls,            \* calls[w][s]: invocations of stage s in w's current call
  succeeded,        \* succeeded[w]: stages that returned without error
  result,           \* result[w]: how w's processMessage call ended
  sqsCalls,         \* sqsCalls[w]: requests w's current call sent to the queue
  timeSinceLastRequest, \* local of processMessage, worker.go:85
  readAt,           \* instant at which w evaluated time.Since at worker.go:85
  seen,             \* value of lastRequestTime that w read at worker.go:85
  sleepTime,        \* local of processMessage, worker.go:89
  wake,             \* instant at which w's time.Sleep may return
  extractStart,     \* instant of w's SendPDF2Grobid call (kept until tidy)
  procState         \* "running", "exited" (log.Fatalf), "panicked"

vars == <<now, cfgOK, minGap, lastRequestTime, lastRequestTimeMu, messageQueue,
          delivered, received, pc, message, calls, succeeded, result, sqsCalls,
          timeSinceLastRequest, readAt, seen, sleepTime, wake, extractStart,
          procState>>

shared == <<lastRequestTime, lastRequestTimeMu>>
clock == <<now>>
config == <<cfgOK, minGap>>
channel == <<messageQueue, delivered, received>>
outcome == <<calls, succeeded, result, sqsCalls>>
locals == <<timeSinceLastRequest, readAt, seen, sleepTime, wake, extractStart>>

PcLabels == {"start", "recv", "decode", "lock1", "read", "unlock1", "check",
             "sleep", "fetch", "extract", "tidy", "enrich",
             "lock2", "stamp", "unlock2", "extend", "returned", "panicked"}

NoCalls == [s \in Stages |-> 0]

TypeOK ==
  /\ now \in Nat
  /\ cfgOK \in BOOLEAN
  /\ minGap \in Nat
  /\ lastRequestTime \in {ZeroTime} \cup (0..now)
  /\ lastRequestTimeMu \in {0} \cup Workers
  /\ messageQueue \in Seq(Messages)
  /\ delivered \in 0..MaxMsgs
  /\ received \in [MsgIds -> Nat]
  /\ pc \in [Workers -> PcLabels]
  /\ message \in [Workers -> Messages \cup {NoMessage}]
  /\ calls \in [Workers -> [Stages -> Nat]]
  /\ succeeded \in [Workers -> SUBSET Stages]
  /\ result \in [Workers -> {"none", "Done", "Aborted"}]
  /\ sqsCalls \in [Workers -> Seq([op : SqsOps, ReceiptHandle : MsgIds,
                                   VisibilityTimeout : Nat])]
  /\ procState \in {"running", "exited", "panicked"}

Init ==
  /\ now = 0
  /\ cfgOK \in BOOLEAN
  /\ minGap = GapSeconds
  /\ lastRequestTime = ZeroTime
  /\ lastRequestTimeMu = 0
  /\ messageQueue = <<>>
  /\ delivered = 0
  /\ received = [h \in MsgIds |-> 0]
  /\ pc = [w \in Workers |-> "start"]
  /\ message = [w \in Workers |-> NoMessage]
  /\ calls = [w \in Workers |-> NoCalls]
  /\ succeeded = [w \in Workers |-> {}]
  /\ result = [w \in Workers |-> "none"]
  /\ sqsCalls = [w \in Workers |-> <<>>]
  /\ timeSinceLastRequest = [w \in Workers |-> 0]
  /\ readAt = [w \in Workers |-> 0]
  /\ seen = [w \in Workers |-> ZeroTime]
  /\ sleepTime = [w \in Workers |-> 0]
  /\ wake = [w \in Workers |-> 0]
  /\ extractStart = [w \in Workers |-> 0]
  /\ procState = "running"

Running == procState = "running"

\* ---- environment ----

\* The clock advances (up to the horizon of the model).
TickTo(horizon) ==
  /\ Running
  /\ now < horizon
  /\ now' = now + 1
  /\ UNCHANGED <<config, shared, channel, pc, message, outcome, locals,
                 procState>>

Tick == TickTo(MaxTime)

\* The poller puts the next received SQS message on the channel.
Deliver(k) ==
  /\ Running
  /\ delivered < MaxMsgs
  /\ delivered' = delivered + 1
  /\ messageQueue' = Append(messageQueue,
                            [ReceiptHandle |-> delivered + 1, Body |-> k])
  /\ UNCHANGED <<clock, config, shared, received, pc, message, outcome, locals,
                 procState>>

\* ---- Worker ----

Goto(w, l) == pc' = [pc EXCEPT ![w] = l]

\* Faulty variant of StartWorker: the parse error is logged with log.Printf
\* and the worker starts all the same.
StartWorker_LogsOnly(w) ==
  /\ Running
  /\ pc[w] = "start"
  /\ Goto(w, "recv")
  /\ UNCHANGED <<clock, config, shared, channel, message, outcome, locals,
                 procState>>

\* worker.go:27-34: parse the minimum gap; log.Fatalf exits the process.
StartWorker(w) ==
  /\ Running
  /\ pc[w] = "start"
  /\ IF cfgOK
       THEN /\ Goto(w, "recv")
            /\ UNCHANGED procState
       ELSE /\ procState' = "exited"
            /\ UNCHANGED pc
  /\ UNCHANGED <<clock, config, shared, channel, message, outcome, locals>>

\* Faulty variant of Receive: the worker takes the message at the head of
\* the channel without removing it.
Receive_Peeks(w) ==
  /\ Running
  /\ pc[w] = "recv"
  /\ messageQueue # <<>>
  /\ message' = [message EXCEPT ![w] = Head(messageQueue)]
  /\ received' = [received EXCEPT ![Head(messageQueue).ReceiptHandle] = @ + 1]
  /\ Goto(w, "decode")
  /\ UNCHANGED <<clock, config, shared, messageQueue, delivered, outcome,
                 locals, procState>>

\* worker.go:37-38: message := <-messageQueue; processMessage is entered.
Receive(w) ==
  /\ Running
  /\ pc[w] = "recv"
  /\ messageQueue # <<>>
  /\ message' = [message EXCEPT ![w] = Head(messageQueue)]
  /\ messageQueue' = Tail(messageQueue)
  /\ received' = [received EXCEPT ![Head(messageQueue).ReceiptHandle] = @ + 1]
  /\ Goto(w, "decode")
  /\ UNCHANGED <<clock, config, shared, delivered, outcome, locals, procState>>

\* worker.go:36-39: processMessage has returned; the for loop goes round and
\* the message and the record of the call are dropped.
Loop(w) ==
  /\ Running
  /\ pc[w] = "returned"
  /\ Goto(w, "recv")
  /\ message' = [message EXCEPT ![w] = NoMessage]
  /\ calls' = [calls EXCEPT ![w] = NoCalls]
  /\ succeeded' = [succeeded EXCEPT ![w] = {}]
  /\ result' = [result EXCEPT ![w] = "none"]
  /\ sqsCalls' = [sqsCalls EXCEPT ![w] = <<>>]
  /\ UNCHANGED <<clock, config, shared, channel, locals, procState>>

\* ---- processMessage ----

\* The locals of processMessage are dead once the call after the gate has
\* been made; they are reset so that states differing only in dead locals
\* coincide.
ClearLocals(w) ==
  /\ timeSinceLastRequest' = [timeSinceLastRequest EXCEPT ![w] = 0]
  /\ readAt' = [readAt EXCEPT ![w] = 0]
  /\ seen' = [seen EXCEPT ![w] = ZeroTime]
  /\ sleepTime' = [sleepTime EXCEPT ![w] = 0]
  /\ wake' = [wake EXCEPT ![w] = 0]
  /\ extractStart' = [extractStart EXCEPT ![w] = 0]

\* processMessage returns to Worker with outcome r.
Return(w, r) ==
  /\ result' = [result EXCEPT ![w] = r]
  /\ Goto(w, "returned")
  /\ ClearLocals(w)

\* Stage s is invoked in w's call.
Called(w, s) == calls' = [calls EXCEPT ![w][s] = @ + 1]

\* Stage s returned ok or an error in w's call.
Returned(w, s, ok) ==
  succeeded' = [succeeded EXCEPT ![w] = IF ok THEN @ \cup {s} ELSE @]

\* worker.go:72-82: json.Unmarshal, whose error is logged and makes the call
\* return; then three unchecked type assertions: a missing key or a
\* non-string value panics, and a panic in a goroutine ends the process.
Decode(w) ==
  /\ Running
  /\ pc[w] = "decode"
  /\ CASE message[w].Body = "badJSON" ->
            /\ Return(w, "Aborted")
            /\ UNCHANGED procState
       [] message[w].Body = "wellFormed" ->
            /\ Goto(w, "lock1")
            /\ UNCHANGED <<result, locals, procState>>
       [] OTHER ->
            /\ Goto(w, "panicked")
            /\ procState' = "panicked"
            /\ UNCHANGED <<result, locals>>
  /\ UNCHANGED <<clock, config, shared, channel, message, calls, succeeded,
                 sqsCalls>>

\* worker.go:84: lastRequestTimeMu.Lock()
GateLock(w) ==
  /\ Running
  /\ pc[w] = "lock1"
  /\ lastRequestTimeMu = 0
  /\ lastRequestTimeMu' = w
  /\ Goto(w, "read")
  /\ UNCHANGED <<clock, config, lastRequestTime, channel, message, outcome,
                 locals, procState>>

\* Faulty variant of GateRead: the gate stamps lastRequestTime as it reads.
GateRead_Stamps(w) ==
  /\ Running
  /\ pc[w] = "read"
  /\ timeSinceLastRequest' =
       [timeSinceLastRequest EXCEPT ![w] = Since(now, lastRequestTime)]
  /\ seen' = [seen EXCEPT ![w] = lastRequestTime]
  /\ readAt' = [readAt EXCEPT ![w] = now]
  /\ lastRequestTime' = now
  /\ Called(w, "gate")
  /\ Returned(w, "gate", TRUE)
  /\ Goto(w, "unlock1")
  /\ UNCHANGED <<clock, config, lastRequestTimeMu, channel, message, result,
                 sqsCalls, sleepTime, wake, extractStart, procState>>

\* worker.go:85: timeSinceLastRequest := time.Since(lastRequestTime)
GateRead(w) ==
  /\ Running
  /\ pc[w] = "read"
  /\ timeSinceLastRequest' =
       [timeSinceLastRequest EXCEPT ![w] = Since(now, lastRequestTime)]
  /\ seen' = [seen EXCEPT ![w] = lastRequestTime]
  /\ readAt' = [readAt EXCEPT ![w] = now]
  /\ Called(w, "gate")
  /\ Returned(w, "gate", TRUE)
  /\ Goto(w, "unlock1")
  /\ UNCHANGED <<clock, config, shared, channel, message, result, sqsCalls,
                 sleepTime, wake, extractStart, procState>>

\* Faulty variant of GateUnlock: the unlock is forgotten and the worker goes on
\* holding the mutex.
GateUnlock_KeepsLock(w) ==
  /\ Running
  /\ pc[w] = "unlock1"
  /\ Goto(w, "check")
  /\ UNCHANGED <<clock, config, shared, channel, message, outcome, locals,
                 procState>>

\* worker.go:86: lastRequestTimeMu.Unlock()
GateUnlock(w) ==
  /\ Running
  /\ pc[w] = "unlock1"
  /\ lastRequestTimeMu' = 0
  /\ Goto(w, "check")
  /\ UNCHANGED <<clock, config, lastRequestTime, channel, message, outcome,
                 locals, procState>>

\* Faulty variant of SleepTime: the worker sleeps the whole gap.
SleepTime_FullGap(gap, since) == gap

\* worker.go:89: sleepTime := minGap - timeSinceLastRequest
SleepTime(gap, since) == gap - since

\* Worker v is past the gate and has not stamped lastRequestTime yet.
BetweenGateAndStamp(v) ==
  pc[v] \in {"fetch", "extract", "tidy", "enrich", "lock2", "stamp"}

\* Faulty variant of GateCheck (a strict gate): a worker goes on only when
\* no other worker is between the gate and its stamp.
GateCheck_Strict(w) ==
  /\ Running
  /\ pc[w] = "check"
  /\ \A v \in Workers \ {w} : ~BetweenGateAndStamp(v)
  /\ IF timeSinceLastRequest[w] < minGap
       THEN /\ sleepTime' = [sleepTime EXCEPT ![w] =
                               SleepTime(minGap, timeSinceLastRequest[w])]
            /\ wake' = [wake EXCEPT ![w] =
                          now + SleepTime(minGap, timeSinceLastRequest[w])]
            /\ timeSinceLastRequest' = [timeSinceLastRequest EXCEPT ![w] = 0]
            /\ Goto(w, "sleep")
            /\ UNCHANGED <<readAt, seen, extractStart>>
       ELSE /\ Goto(w, "fetch")
            /\ timeSinceLastRequest' = [timeSinceLastRequest EXCEPT ![w] = 0]
            /\ readAt' = [readAt EXCEPT ![w] = 0]
            /\ UNCHANGED <<seen, sleepTime, wake, extractStart>>
  /\ UNCHANGED <<clock, config, shared, channel, message, outcome, procState>>

\* worker.go:88-92: sleep for the remainder of the gap, or go on at once.
GateCheck(w) ==
  /\ Running
  /\ pc[w] = "check"
  /\ IF timeSinceLastRequest[w] < minGap
       THEN /\ sleepTime' = [sleepTime EXCEPT ![w] =
                               SleepTime(minGap, timeSinceLastRequest[w])]
            /\ wake' = [wake EXCEPT ![w] =
                          now + SleepTime(minGap, timeSinceLastRequest[w])]
            /\ timeSinceLastRequest' = [timeSinceLastRequest EXCEPT ![w] = 0]
            /\ Goto(w, "sleep")
            /\ UNCHANGED <<readAt, seen, extractStart>>
       ELSE /\ Goto(w, "fetch")
            /\ timeSinceLastRequest' = [timeSinceLastRequest EXCEPT ![w] = 0]
            /\ readAt' = [readAt EXCEPT ![w] = 0]
            /\ UNCHANGED <<seen, sleepTime, wake, extractStart>>
  /\ UNCHANGED <<clock, config, shared, channel, message, outcome, procState>>

\* Faulty variant of WakeUp: the sleep may return before sleepTime has passed.
WakeUp_Early(w) ==
  /\ Running
  /\ pc[w] = "sleep"
  /\ Goto(w, "fetch")
  /\ readAt' = [readAt EXCEPT ![w] = 0]
  /\ wake' = [wake EXCEPT ![w] = 0]
  /\ UNCHANGED <<timeSinceLastRequest, seen, sleepTime, extractStart>>
  /\ UNCHANGED <<clock, config, shared, channel, message, outcome, procState>>

\* worker.go:91: time.Sleep returns once at least sleepTime has passed.
WakeUp(w) ==
  /\ Running
  /\ pc[w] = "sleep"
  /\ now >= wake[w]
  /\ Goto(w, "fetch")
  /\ readAt' = [readAt EXCEPT ![w] = 0]
  /\ wake' = [wake EXCEPT ![w] = 0]
  /\ UNCHANGED <<timeSinceLastRequest, seen, sleepTime, extractStart>>
  /\ UNCHANGED <<clock, config, shared, channel, message, outcome, procState>>

\* Faulty variant of Stage: the `return` after the error is missing, and the call
\* falls through to the next stage.
Stage_FallThrough(w, l, s, next, ok) ==
  /\ Running
  /\ pc[w] = l
  /\ Returned(w, s, ok)
  /\ Goto(w, next)
  /\ ClearLocals(w)
  /\ UNCHANGED result
  /\ UNCHANGED <<clock, config, shared, channel, message, sqsCalls, procState>>

\* A call at label l returns; its error makes processMessage return
\* (worker.go:98-102, 105-108, 112-115, 119-122).
Stage(w, l, s, next, ok) ==
  /\ Running
  /\ pc[w] = l
  /\ Returned(w, s, ok)
  /\ IF ok
       THEN /\ Goto(w, next)
            /\ ClearLocals(w)
            /\ UNCHANGED result
       ELSE Return(w, "Aborted")
  /\ UNCHANGED <<clock, config, shared, channel, message, sqsCalls, procState>>

\* worker.go:94-102: downloadFileFromS3
Fetch(w, ok) ==
  /\ Called(w, "fetch")
  /\ Stage(w, "fetch", "fetch", "extract", ok)

\* Faulty variant of Extract: lastRequestTime is stamped as soon as the
\* request to Grobid has returned, whatever its outcome.
Extract_Stamps(w, ok) ==
  /\ Running
  /\ pc[w] = "extract"
  /\ calls' = [calls EXCEPT ![w]["extract"] = @ + 1, ![w]["stamp"] = @ + 1]
  /\ Returned(w, "extract", ok)
  /\ lastRequestTime' = now
  /\ IF ok
       THEN /\ Goto(w, "tidy")
            /\ extractStart' = [extractStart EXCEPT ![w] = now]
            /\ UNCHANGED <<result, timeSinceLastRequest, readAt, seen,
                           sleepTime, wake>>
       ELSE Return(w, "Aborted")
  /\ UNCHANGED <<clock, config, lastRequestTimeMu, channel, message, sqsCalls,
                 procState>>

\* worker.go:104-108: parsing.SendPDF2Grobid
Extract(w, ok) ==
  /\ Running
  /\ pc[w] = "extract"
  /\ Called(w, "extract")
  /\ Returned(w, "extract", ok)
  /\ IF ok
       THEN /\ Goto(w, "tidy")
            /\ extractStart' = [extractStart EXCEPT ![w] = now]
            /\ UNCHANGED <<result, timeSinceLastRequest, readAt, seen,
                           sleepTime, wake>>
       ELSE Return(w, "Aborted")
  /\ UNCHANGED <<clock, config, shared, channel, message, sqsCalls, procState>>

\* worker.go:111-115: parsing.TidyUpGrobidResponse
Tidy(w, ok) ==
  /\ Called(w, "tidy")
  /\ Stage(w, "tidy", "tidy", "enrich", ok)

\* Faulty variant of Enrich: the error of CrossReferenceData is logged but the call
\* goes on to the stamp and the visibility extension.
Enrich_IgnoresError(w, ok) ==
  /\ Called(w, "enrich")
  /\ Stage_FallThrough(w, "enrich", "enrich", "lock2", ok)

\* worker.go:118-125: parsing.CrossReferenceData, then TidyCrossRefData
Enrich(w, ok) ==
  /\ Called(w, "enrich")
  /\ Stage(w, "enrich", "enrich", "lock2", ok)

\* Faulty variant of StampLock: the stamp is made without taking the mutex.
StampLock_SkipsLock(w) ==
  /\ Running
  /\ pc[w] = "lock2"
  /\ Goto(w, "stamp")
  /\ UNCHANGED <<clock, config, shared, channel, message, outcome, locals,
                 procState>>

\* worker.go:129: lastRequestTimeMu.Lock()
StampLock(w) ==
  /\ Running
  /\ pc[w] = "lock2"
  /\ lastRequestTimeMu = 0
  /\ lastRequestTimeMu' = w
  /\ Goto(w, "stamp")
  /\ UNCHANGED <<clock, config, lastRequestTime, channel, message, outcome,
                 locals, procState>>

\* Faulty variant of Stamp: the stamp is the instant at which the next
\* request is allowed, not the current time.
Stamp_Ahead(w) ==
  /\ Running
  /\ pc[w] = "stamp"
  /\ lastRequestTime' = now + minGap
  /\ Called(w, "stamp")
  /\ Returned(w, "stamp", TRUE)
  /\ Goto(w, "unlock2")
  /\ UNCHANGED <<clock, config, lastRequestTimeMu, channel, message, result,
                 sqsCalls, locals, procState>>

\* worker.go:130: lastRequestTime = time.Now()
Stamp(w) ==
  /\ Running
  /\ pc[w] = "stamp"
  /\ lastRequestTime' = now
  /\ Called(w, "stamp")
  /\ Returned(w, "stamp", TRUE)
  /\ Goto(w, "unlock2")
  /\ UNCHANGED <<clock, config, lastRequestTimeMu, channel, message, result,
                 sqsCalls, locals, procState>>

\* worker.go:131: lastRequestTimeMu.Unlock()
StampUnlock(w) ==
  /\ Running
  /\ pc[w] = "unlock2"
  /\ lastRequestTimeMu' = 0
  /\ Goto(w, "extend")
  /\ UNCHANGED <<clock, config, lastRequestTime, channel, message, outcome,
                 locals, procState>>

\* worker.go:133-137: the ChangeMessageVisibilityInput built for w's message.
VisibilityRequest(w) ==
  [op |-> "ChangeMessageVisibility",
   ReceiptHandle |-> message[w].ReceiptHandle,
   VisibilityTimeout |-> VisibilityTimeout]

\* Request r is sent to the queue in w's call.
Sent(w, r) == sqsCalls' = [sqsCalls EXCEPT ![w] = Append(@, r)]

\* Faulty variant of Extend: a failed request is tried again.
Extend_Retries(w, ok) ==
  /\ Running
  /\ pc[w] = "extend"
  /\ Called(w, "extend")
  /\ Returned(w, "extend", ok)
  /\ Sent(w, VisibilityRequest(w))
  /\ IF ok
       THEN Return(w, "Done")
       ELSE UNCHANGED <<pc, result, locals>>
  /\ UNCHANGED <<clock, config, shared, channel, message, procState>>

\* Faulty variant of Extend: an error of the request aborts the call.
Extend_FatalOnError(w, ok) ==
  /\ Running
  /\ pc[w] = "extend"
  /\ Called(w, "extend")
  /\ Returned(w, "extend", ok)
  /\ Sent(w, VisibilityRequest(w))
  /\ Return(w, IF ok THEN "Done" ELSE "Aborted")
  /\ UNCHANGED <<clock, config, shared, channel, message, procState>>

\* Faulty variant of Extend: the message is deleted from the queue once its
\* visibility has been extended.
Extend_ThenDeletes(w, ok) ==
  /\ Running
  /\ pc[w] = "extend"
  /\ Called(w, "extend")
  /\ Returned(w, "extend", ok)
  /\ sqsCalls' = [sqsCalls EXCEPT ![w] =
                    IF ok
                      THEN @ \o <<VisibilityRequest(w),
                                  [op |-> "DeleteMessage",
                                   ReceiptHandle |-> message[w].ReceiptHandle,
                                   VisibilityTimeout |-> 0]>>
                      ELSE Append(@, VisibilityRequest(w))]
  /\ Return(w, "Done")
  /\ UNCHANGED <<clock, config, shared, channel, message, procState>>

\* worker.go:133-141: svc.ChangeMessageVisibility; an error is only logged.
Extend(w, ok) ==
  /\ Running
  /\ pc[w] = "extend"
  /\ Called(w, "extend")
  /\ Returned(w, "extend", ok)
  /\ Sent(w, VisibilityRequest(w))
  /\ Return(w, "Done")
  /\ UNCHANGED <<clock, config, shared, channel, message, procState>>

Next ==
  \/ Tick
  \/ \E k \in BodyKinds : Deliver(k)
  \/ \E w \in Workers : StartWorker(w)
  \/ \E w \in Workers : Receive(w)
  \/ \E w \in Workers : Loop(w)
  \/ \E w \in Workers : Decode(w)
  \/ \E w \in Workers : GateLock(w)
  \/ \E w \in Workers : GateRead(w)
  \/ \E w \in Workers : GateUnlock(w)
  \/ \E w \in Workers : GateCheck(w)
  \/ \E w \in Workers : WakeUp(w)
  \/ \E w \in Workers, ok \in BOOLEAN : Fetch(w, ok)
  \/ \E w \in Workers, ok \in BOOLEAN : Extract(w, ok)
  \/ \E w \in Workers, ok \in BOOLEAN : Tidy(w, ok)
  \/ \E w \in Workers, ok \in BOOLEAN : Enrich(w, ok)
  \/ \E w \in Workers : StampLock(w)
  \/ \E w \in Workers : Stamp(w)
  \/ \E w \in Workers : StampUnlock(w)
  \/ \E w \in Workers, ok \in BOOLEAN : Extend(w, ok)

Spec == Init /\ [][Next]_vars

\* ---- fair scheduling ----
\* Past the horizon the clock still advances while a sleeper waits for it:
\* time never stops, so every time.Sleep returns.
LiveTick ==
  /\ Running
  /\ now >= MaxTime
  /\ \E w \in Workers : pc[w] = "sleep" /\ wake[w] > now
  /\ now' = now + 1
  /\ UNCHANGED <<config, shared, channel, pc, message, outcome, locals,
                 procState>>

\* Any step of goroutine w; every external call returns.
WorkerStep(w) ==
  \/ StartWorker(w)
  \/ Receive(w)
  \/ Loop(w)
  \/ Decode(w)
  \/ GateLock(w)
  \/ GateRead(w)
  \/ GateUnlock(w)
  \/ GateCheck(w)
  \/ WakeUp(w)
  \/ \E ok \in BOOLEAN : Fetch(w, ok)
  \/ \E ok \in BOOLEAN : Extract(w, ok)
  \/ \E ok \in BOOLEAN : Tidy(w, ok)
  \/ \E ok \in BOOLEAN : Enrich(w, ok)
  \/ StampLock(w)
  \/ Stamp(w)
  \/ StampUnlock(w)
  \/ \E ok \in BOOLEAN : Extend(w, ok)

LiveNext ==
  \/ Next
  \/ LiveTick

\* The Go scheduler runs every runnable goroutine, and the clock advances.
FairSpec ==
  /\ Init
  /\ [][LiveNext]_vars
  /\ WF_vars(Tick \/ LiveTick)
  /\ \A w \in Workers : WF_vars(WorkerStep(w))

\* ---- the gate on its own (worker.go:84-92) ----
\* Workers stand at the gate at instant `now`; lastRequestTime is still zero
\* or holds an earlier stamp, and the configured gap ranges over 0..GateMaxGap.
GateWorkers == {w \in Workers : w <= MaxMsgs}

GateInit ==
  /\ lastRequestTime \in {ZeroTime} \cup (0..GateMaxTime)
  /\ now = (IF lastRequestTime = ZeroTime THEN 0 ELSE lastRequestTime)
  /\ cfgOK = TRUE
  /\ minGap \in 0..GateMaxGap
  /\ lastRequestTimeMu = 0
  /\ messageQueue = <<>>
  /\ delivered = Cardinality(GateWorkers)
  /\ received = [h \in MsgIds |-> IF h \in GateWorkers THEN 1 ELSE 0]
  /\ pc = [w \in Workers |-> IF w \in GateWorkers THEN "lock1" ELSE "recv"]
  /\ message = [w \in Workers |->
                  IF w \in GateWorkers
                    THEN [ReceiptHandle |-> w, Body |-> "wellFormed"]
                    ELSE NoMessage]
  /\ calls = [w \in Workers |-> NoCalls]
  /\ succeeded = [w \in Workers |-> {}]
  /\ result = [w \in Workers |-> "none"]
  /\ sqsCalls = [w \in Workers |-> <<>>]
  /\ timeSinceLastRequest = [w \in Workers |-> 0]
  /\ readAt = [w \in Workers |-> 0]
  /\ seen = [w \in Workers |-> ZeroTime]
  /\ sleepTime = [w \in Workers |-> 0]
  /\ wake = [w \in Workers |-> 0]
  /\ extractStart = [w \in Workers |-> 0]
  /\ procState = "running"

GateTick == TickTo(GateMaxTime)

GateNext ==
  \/ GateTick
  \/ \E w \in Workers : GateLock(w)
  \/ \E w \in Workers : GateRead(w)
  \/ \E w \in Workers : GateUnlock(w)
  \/ \E w \in Workers : GateCheck(w)
  \/ \E w \in Workers : WakeUp(w)

GateSpec == GateInit /\ [][GateNext]_vars

(***************************************************************************)
(* Properties                                                              *)
(***************************************************************************)

\* The four external stages between decode and the visibility extension.
FourStages == {"fetch", "extract", "tidy", "enrich"}

\* Stage s was called in w's current call and returned an error.
Failed(w, s) == calls[w][s] > 0 /\ s \notin succeeded[w]

\* The stages named by the pipeline, in the order processMessage calls them.
PipelineOrder == <<"fetch", "extract", "tidy", "enrich", "extend">>

Later(s) ==
  {PipelineOrder[j] : j \in {i \in 1..Len(PipelineOrder) :
       \E k \in 1..Len(PipelineOrder) : PipelineOrder[k] = s /\ k < i}}

\* C1: for a well-formed message the visibility extension is requested only
\* after fetch, extraction, tidy and enrichment all succeeded, and once
\* processMessage has returned it has been requested exactly when all four
\* succeeded.
ExtendIffAllSucceeded ==
  \A w \in Workers :
    message[w].Body = "wellFormed" =>
      /\ calls[w]["extend"] > 0 => FourStages \subseteq succeeded[w]
      /\ pc[w] = "returned" =>
           (calls[w]["extend"] > 0 <=> FourStages \subseteq succeeded[w])

\* C1 witness: one call returned Done with the extension requested after all
\* four stages succeeded, another returned Aborted without it.
ExtendedAndNotExtended ==
  \E w, v \in Workers :
    /\ pc[w] = "returned" /\ result[w] = "Done"
    /\ message[w].Body = "wellFormed"
    /\ calls[w]["extend"] = 1 /\ FourStages \subseteq succeeded[w]
    /\ pc[v] = "returned" /\ result[v] = "Aborted"
    /\ message[v].Body = "wellFormed"
    /\ calls[v]["extend"] = 0 /\ ~(FourStages \subseteq succeeded[v])

\* C2: a failing stage (JSON decode, fetch, extraction, tidy, enrichment)
\* ends the call in Aborted and no stage after the failing one is called; a
\* JSON decode failure makes no call at all.
AbortStopsPipeline ==
  \A w \in Workers :
    /\ (message[w].Body = "badJSON" /\ pc[w] # "decode") =>
         /\ pc[w] = "returned" /\ result[w] = "Aborted"
         /\ calls[w] = NoCalls
    /\ \A s \in FourStages :
         Failed(w, s) =>
           /\ pc[w] = "returned" /\ result[w] = "Aborted"
           /\ \A t \in Later(s) : calls[w][t] = 0

\* C2 witness: one call aborted on a fetch error with no later stage called,
\* another aborted on a JSON decode error with no call at all.
AbortedAtFetchAndAtDecode ==
  \E w, v \in Workers :
    /\ pc[w] = "returned" /\ result[w] = "Aborted" /\ Failed(w, "fetch")
    /\ calls[w]["extract"] = 0 /\ calls[w]["enrich"] = 0
    /\ calls[w]["extend"] = 0
    /\ pc[v] = "returned" /\ result[v] = "Aborted"
    /\ message[v].Body = "badJSON" /\ calls[v] = NoCalls

\* C3 (as claimed): once the extraction call of a message has returned
\* successfully, lastRequestTime is stamped before the worker finishes the
\* message, also when tidy or enrichment fails.
StampedAfterExtraction ==
  \A w \in Workers :
    (pc[w] = "returned" /\ "extract" \in succeeded[w]) =>
      calls[w]["stamp"] > 0

\* A step in which worker w leaves the gate towards the calls behind it.
LeavesGate(w) == pc[w] \in {"check", "sleep"} /\ pc'[w] = "fetch"

\* C4 (as claimed): when a worker leaves the gate, the current time minus the
\* current value of lastRequestTime is at least minGap.
GapSinceCurrentStamp ==
  [][\A w \in Workers :
       LeavesGate(w) => Sub(now', lastRequestTime') >= minGap]_vars

\* C4 (amended): when a worker leaves the gate, the current time minus the
\* value of lastRequestTime that this worker read at the gate is at least
\* minGap.
GapSinceStampRead ==
  [][\A w \in Workers : LeavesGate(w) => Sub(now', seen[w]) >= minGap]_vars

\* C4 witness: a worker has left the gate after sleeping out the remainder of
\* the gap since the stamp it read.
LeftGateAfterSleep ==
  \E w \in Workers :
    /\ pc[w] = "fetch" /\ sleepTime[w] > 0
    /\ seen[w] # ZeroTime /\ now - seen[w] >= minGap

\* C5 (as claimed): the gate is evaluated only after the storage fetch of the
\* message has succeeded, and a message whose fetch fails never reaches the
\* gate.
GateAfterFetch ==
  \A w \in Workers :
    /\ calls[w]["gate"] > 0 => "fetch" \in succeeded[w]
    /\ Failed(w, "fetch") => calls[w]["gate"] = 0

\* C6 (as claimed): nothing a message contains and no failure of a stage
\* stops the worker pool.
PoolSurvivesMessages == procState # "panicked"

\* C7 (as claimed): a message whose JSON is valid but lacks one of the three
\* fields, or has a non-string value for it, ends in Aborted with no
\* downstream call.
BadFieldAborts ==
  \A w \in Workers :
    (message[w].Body = "badField" /\ pc[w] # "decode") =>
      /\ pc[w] = "returned" /\ result[w] = "Aborted"
      /\ calls[w] = NoCalls

\* C8: the gate is best effort. While the process runs, a worker that found
\* the gap satisfied is not held back by a worker that has passed the gate
\* and not stamped yet, so both go on to the extraction call.
RacingWorkersBothProceed ==
  \A w, v \in Workers :
    (/\ Running
     /\ w # v
     /\ pc[w] = "check"
     /\ timeSinceLastRequest[w] >= minGap
     /\ BetweenGateAndStamp(v)) =>
      ENABLED (GateCheck(w) /\ pc'[w] = "fetch")

\* C8 witness: two workers read the same timestamp, neither has stamped, and
\* their extraction calls started less than minGap apart.
TwoExtractionsWithinGap ==
  \E w, v \in Workers :
    /\ w # v
    /\ minGap > 0
    /\ pc[w] = "tidy" /\ pc[v] = "tidy"
    /\ calls[w]["stamp"] = 0 /\ calls[v]["stamp"] = 0
    /\ extractStart[w] - extractStart[v] < minGap
    /\ extractStart[v] - extractStart[w] < minGap

\* C9: a worker that sleeps at the gate or is in an external call does not
\* hold lastRequestTimeMu.
NoLockWhileBlocked ==
  \A w \in Workers :
    pc[w] \in {"sleep", "fetch", "extract", "tidy", "enrich", "extend"} =>
      lastRequestTimeMu # w

\* C9 witness: one worker sleeps at the gate while the mutex is free, so the
\* other can evaluate the gate.
SleeperLeavesLockFree ==
  \E w \in Workers : pc[w] = "sleep" /\ lastRequestTimeMu = 0

\* C10: the gate decision as a function of the timestamp read at instant
\* readAt: zero timestamp, no sleep; stamp s with readAt - s < minGap, a
\* sleep of exactly minGap - (readAt - s); otherwise no sleep.
GateDecision ==
  [][\A w \in Workers :
       (pc[w] = "check" /\ pc'[w] # "check") =>
         IF seen[w] = ZeroTime
           THEN pc'[w] = "fetch"
           ELSE IF readAt[w] - seen[w] < minGap
             THEN /\ pc'[w] = "sleep"
                  /\ sleepTime'[w] = minGap - (readAt[w] - seen[w])
             ELSE pc'[w] = "fetch"]_vars

\* C10 witness: with minGap = 5, a worker that read a stamp one tick old
\* sleeps 4.
SleepsFourOfFive ==
  \E w \in Workers :
    /\ minGap = 5
    /\ pc[w] = "sleep"
    /\ seen[w] # ZeroTime /\ readAt[w] - seen[w] = 1
    /\ sleepTime[w] = 4

\* C11: no stage is invoked more than once in one call, and a call that
\* passed all stages has sent exactly one request to the queue: a
\* visibility change with the receipt handle of its own message and a
\* timeout of 30 seconds.
OneExtensionNoRetry ==
  \A w \in Workers :
    /\ \A s \in Stages : calls[w][s] <= 1
    /\ Len(sqsCalls[w]) = calls[w]["extend"]
    /\ (pc[w] = "returned" /\ FourStages \subseteq succeeded[w]) =>
         sqsCalls[w] = <<[op |-> "ChangeMessageVisibility",
                          ReceiptHandle |-> message[w].ReceiptHandle,
                          VisibilityTimeout |-> 30]>>

\* C11 witness: two calls passed all stages, each extended the visibility of
\* its own message once.
BothExtendedOwnMessage ==
  \E w, v \in Workers :
    /\ w # v
    /\ pc[w] = "returned" /\ pc[v] = "returned"
    /\ Len(sqsCalls[w]) = 1 /\ Len(sqsCalls[v]) = 1
    /\ sqsCalls[w][1].ReceiptHandle = message[w].ReceiptHandle
    /\ sqsCalls[v][1].ReceiptHandle = message[v].ReceiptHandle
    /\ message[w].ReceiptHandle # message[v].ReceiptHandle

\* C12: when the visibility extension fails, processMessage still ends in
\* Done, the process keeps running and lastRequestTime keeps the value
\* stamped for this message; the worker stands at the end of the call, from
\* where Loop takes it back to the receive.
ExtensionFailureNotFatal ==
  [][\A w \in Workers :
       (pc[w] = "extend" /\ pc'[w] # "extend") =>
         /\ pc'[w] = "returned"
         /\ result'[w] = "Done"
         /\ procState' = "running"
         /\ lastRequestTime' = lastRequestTime]_vars

\* C12 witness: a call whose visibility extension failed has returned Done.
ReturnedDoneAfterFailedExtension ==
  \E w \in Workers :
    /\ pc[w] = "returned" /\ result[w] = "Done"
    /\ Failed(w, "extend")
    /\ calls[w]["stamp"] = 1
    /\ procState = "running"

\* C13: the only request a call ever sends to the queue about its message is
\* a visibility change, at most one; no delete is ever sent.
NeverDeletes ==
  \A w \in Workers :
    /\ Len(sqsCalls[w]) <= 1
    /\ \A i \in 1..Len(sqsCalls[w]) : sqsCalls[w][i].op # "DeleteMessage"
    /\ result[w] = "Aborted" => sqsCalls[w] = <<>>

\* C13 witness: a call has returned Done having sent only the visibility
\* change, while another returned Aborted having sent nothing.
OnlyExtensionSent ==
  \E w, v \in Workers :
    /\ pc[w] = "returned" /\ result[w] = "Done"
    /\ Len(sqsCalls[w]) = 1
    /\ sqsCalls[w][1].op = "ChangeMessageVisibility"
    /\ pc[v] = "returned" /\ result[v] = "Aborted" /\ sqsCalls[v] = <<>>

\* The labels of the gate: Lock, read, Unlock, compare, sleep.
GateLabels == {"lock1", "read", "unlock1", "check", "sleep"}

\* C14: no step of the gate (lock, read, unlock, compare, sleep) changes
\* lastRequestTime; it changes only in the stamp step at worker.go:130.
GateNeverStamps ==
  [][/\ \A w \in Workers :
          (pc[w] \in GateLabels /\ pc'[w] # pc[w]) =>
            lastRequestTime' = lastRequestTime
     /\ lastRequestTime' # lastRequestTime =>
          \E w \in Workers : pc[w] = "stamp" /\ pc'[w] = "unlock2"]_vars

\* C14 witness: a worker has evaluated the gate, slept and left it, and
\* lastRequestTime still holds the stamp the worker read.
GatePassedStampUntouched ==
  \E w \in Workers :
    /\ pc[w] = "fetch" /\ calls[w]["gate"] = 1 /\ sleepTime[w] > 0
    /\ seen[w] # ZeroTime /\ lastRequestTime = seen[w]

\* C15: each message is received at most once, a message in flight is no
\* longer on the channel, and no two workers hold the same message; a worker
\* holds a message exactly while it is inside processMessage.
OneWorkerPerMessage ==
  /\ \A h \in MsgIds : received[h] <= 1
  /\ \A h \in MsgIds :
       received[h] = 1 =>
         /\ h <= delivered
         /\ \A i \in 1..Len(messageQueue) : messageQueue[i].ReceiptHandle # h
  /\ \A w \in Workers :
       /\ message[w] = NoMessage <=> pc[w] \in {"start", "recv"}
       /\ message[w] # NoMessage => received[message[w].ReceiptHandle] = 1
  /\ \A w, v \in Workers :
       (w # v /\ message[w] # NoMessage) =>
         message[w].ReceiptHandle # message[v].ReceiptHandle

\* C15 witness: two workers are inside processMessage at once, each with its
\* own message, and the channel is empty.
TwoMessagesInFlight ==
  \E w, v \in Workers :
    /\ w # v
    /\ message[w] # NoMessage /\ message[v] # NoMessage
    /\ pc[w] \notin {"returned", "panicked"}
    /\ pc[v] \notin {"returned", "panicked"}
    /\ received[message[w].ReceiptHandle] = 1
    /\ received[message[v].ReceiptHandle] = 1
    /\ messageQueue = <<>>

\* C16: when the configured gap does not parse, no worker ever leaves its
\* start-up: none receives a message and no processMessage call is started.
BadConfigNoWork ==
  ~cfgOK =>
    /\ \A w \in Workers :
         pc[w] = "start" /\ message[w] = NoMessage /\ calls[w] = NoCalls
    /\ \A h \in MsgIds : received[h] = 0

\* C16 witness: the process has exited on the parse error while a message
\* was waiting on the channel.
ExitedWithMessageWaiting ==
  /\ ~cfgOK
  /\ procState = "exited"
  /\ messageQueue # <<>>
  /\ \A h \in MsgIds : received[h] = 0

\* Worker w is between a Lock and the Unlock that follows it.
InCriticalSection(w) == pc[w] \in {"read", "unlock1", "stamp", "unlock2"}

\* What belongs to worker v alone.
Own(v) ==
  <<pc[v], message[v], calls[v], succeeded[v], result[v], sqsCalls[v],
    timeSinceLastRequest[v], readAt[v], seen[v], sleepTime[v], wake[v],
    extractStart[v]>>

\* C17: a worker stands at the read or at the write of lastRequestTime, or
\* anywhere between Lock and Unlock, exactly when it holds lastRequestTimeMu,
\* so at most one worker is there at a time; lastRequestTime changes only
\* in a step of the holder; and a step of one worker changes nothing that
\* belongs to another worker.
LockGuardsTimestamp ==
  /\ [](\A w \in Workers : InCriticalSection(w) <=> lastRequestTimeMu = w)
  /\ [][/\ lastRequestTime' # lastRequestTime =>
             /\ lastRequestTimeMu \in Workers
             /\ pc'[lastRequestTimeMu] # pc[lastRequestTimeMu]
        /\ \A w, v \in Workers :
             (w # v /\ pc'[w] # pc[w]) => Own(v)' = Own(v)]_vars

\* C17 witness: one worker holds the mutex at the stamp while another waits
\* for it at the gate.
StampingWhileOtherWaits ==
  \E w, v \in Workers :
    /\ pc[w] = "stamp" /\ lastRequestTimeMu = w
    /\ pc[v] = "lock1"

\* C18 (as claimed): under fair scheduling every message a worker received
\* reaches the end of processMessage (Done or Aborted), the worker returns
\* to the receive, and a worker waiting for lastRequestTimeMu gets it.
EveryMessageFinishes ==
  \A w \in Workers :
    /\ (message[w] # NoMessage) ~>
         (pc[w] = "returned" /\ result[w] \in {"Done", "Aborted"})
    /\ (pc[w] = "returned") ~> (pc[w] = "recv")
    /\ (pc[w] \in {"lock1", "lock2"}) ~> (lastRequestTimeMu = w)

\* C19: lastRequestTime never decreases and is never later than the clock.
StampMonotone ==
  /\ lastRequestTime <= now
  /\ [][/\ lastRequestTime' >= lastRequestTime
        /\ lastRequestTime' <= now']_vars

\* C19 witness: a second stamp has just been made, after the clock moved on
\* from the first one.
StampedAgainLater ==
  \E w, v \in Workers :
    /\ w # v
    /\ pc[w] = "unlock2" /\ calls[w]["stamp"] = 1
    /\ lastRequestTime = now /\ now > 0
    /\ calls[v]["stamp"] = 1 /\ pc[v] \in {"extend", "returned"}

\* C20: a call that ends in Aborted has not written lastRequestTime; a call
\* writes it only after its enrichment succeeded; and a call that is at or
\* past the visibility extension has written it exactly once.
StampOnlyBeforeExtension ==
  \A w \in Workers :
    /\ result[w] = "Aborted" => calls[w]["stamp"] = 0
    /\ calls[w]["stamp"] > 0 => "enrich" \in succeeded[w]
    /\ (pc[w] = "extend" \/ calls[w]["extend"] > 0) => calls[w]["stamp"] = 1
    /\ calls[w]["stamp"] <= 1

\* C20 witness: one call was aborted by a tidy error after its extraction
\* succeeded and has written no stamp, while another call stands before the
\* visibility extension having written its one stamp.
AbortedUnstampedDoneStamped ==
  \E w, v \in Workers :
    /\ pc[w] = "returned" /\ result[w] = "Aborted"
    /\ "extract" \in succeeded[w] /\ Failed(w, "tidy")
    /\ calls[w]["stamp"] = 0
    /\ pc[v] = "extend" /\ calls[v]["stamp"] = 1
    /\ lastRequestTime # ZeroTime

====
